---- MODULE Spec2Model ----
(***************************************************************************)
(* Workflow execution of the Clary AI API: WorkflowExecutor                *)
(* (api/app/ml/agents/workflow_executor.py) driven by the workflow service *)
(* (api/app/services/workflow_service.py).                                 *)
(*                                                                         *)
(* One workflow with its tasks and TaskDependency rows is executed once.   *)
(* The coroutines of execute_workflow run on one asyncio event loop: the   *)
(* head of `ready` is the coroutine that is running, it keeps the loop     *)
(* until it suspends or ends, and the others wait their turn in FIFO order.*)
(*                                                                         *)
(* The fields of the model are the rows as the session holds them, and     *)
(* `committed` is what the last db_session.commit() wrote. A commit of     *)
(* execute_workflow is taken to succeed; a commit of create_workflow may    *)
(* raise.                                                                  *)
(* An executor returns a non-empty dict or raises, at once or after it     *)
(* suspended; nothing bounds how long it stays suspended.                  *)
(*                                                                         *)
(* Spec is one execution that nobody disturbs. StatusSpec adds callers of  *)
(* get_workflow_status, CancelSpec a caller that cancels execute_workflow  *)
(* (asyncio of Python 3.8 and later, where CancelledError is no Exception),*)
(* ValidateSpec is _execute_task applied to the validate_results task of a *)
(* workflow whose upstream tasks are over, and ServiceSpec has the service *)
(* create the workflow of a document before it is executed.                *)
(***************************************************************************)
EXTENDS Integers, Sequences, FiniteSets, TLC

\* ---------------------------------------------------------------- bounds
NumTasks == 3          \* tasks of the workflow
MaxDependencies == 3   \* TaskDependency rows of the workflow
MaxConcurrency == 2    \* largest max_concurrency a WorkflowExecutor is built with

Main == 0              \* the coroutine of execute_workflow in the ready queue

VARIABLES
  dependencies,     \* task.dependencies: the tasks each task depends on
  max_concurrency,  \* WorkflowExecutor.max_concurrency
  wf_status,        \* workflow.status
  wf_error,         \* workflow.error
  status,           \* task.status
  result,           \* task.result
  error,            \* task.error
  calls,            \* how often the executor of each task was invoked
  order,            \* tasks, the list _get_execution_order returned
  pc,               \* where execute_workflow is
  cpc,              \* where _execute_task_with_semaphore of each task is
  ready,            \* the event loop's queue of coroutines to run
  sem_value,        \* asyncio.Semaphore._value
  sem_waiters,      \* asyncio.Semaphore._waiters
  outer_done,       \* the future of asyncio.gather is done
  gather_exc,       \* the exception of the future of asyncio.gather
  returned,         \* what execute_workflow returned
  raised,           \* what execute_workflow raised
  status_reply,     \* what the last get_workflow_status call returned
  validation,       \* the call of the validate_results executor under study
  completed_at,     \* task.completed_at is set
  wf_completed_at,  \* workflow.completed_at is set
  document,         \* workflow.document, the Document row
  committed,        \* the rows the last db_session.commit() wrote
  create            \* where create_workflow is, and what it added to the session

vars == <<dependencies, max_concurrency, wf_status, wf_error, status, result,
          error, calls, order, pc, cpc, ready, sem_value, sem_waiters,
          outer_done, gather_exc, returned, raised, status_reply, validation,
          completed_at, wf_completed_at, document, committed, create>>

\* workflow.tasks: the ids of the tasks of the workflow
Tasks == DOMAIN dependencies

\* ---------------------------------------------------------------- values
PENDING == "pending"
RUNNING == "running"
COMPLETED == "completed"
FAILED == "failed"
TaskStatus == {PENDING, RUNNING, COMPLETED, FAILED}
\* no workflow row under the id (the status get_workflow_status reports then)
NOT_FOUND == "not_found"

TaskType ==
  <<"preprocess", "extract_text", "analyze_layout", "understand_document",
    "extract_fields", "extract_tables", "validate_results", "postprocess">>

\* the kind of the t-th task _create_tasks creates
task_type_of_service(t) == TaskType[t]

\* The kind of each task: the workflow service creates the postprocess task
\* last; the tasks before it take the kinds in the order of the enumeration.
task_type(t) ==
  IF t = Cardinality(Tasks) THEN "postprocess" ELSE TaskType[((t - 1) % 7) + 1]

\* The exceptions: no exception, the ValueError of _get_execution_order, the
\* ValueError of the service for a workflow it does not find, the
\* CancelledError asyncio throws into a cancelled coroutine, and the exception
\* the executor of task t raises.
NoError == [kind |-> "none", task |-> 0]
CircularDependency == [kind |-> "circular_dependency", task |-> 0]
WorkflowNotFound == [kind |-> "workflow_not_found", task |-> 0]
CancelledError == [kind |-> "cancelled", task |-> 0]
ExecutorError(t) == [kind |-> "executor", task |-> t]

\* The message of the first ValueError the executor of each kind raises: the
\* six executors that read document_path share theirs.
ExecutorMessage(kind) ==
  CASE kind = "validate_results" -> "Field extraction task result not found"
    [] kind = "postprocess" -> "Validation task result not found"
    [] OTHER -> "Document path not specified in task parameters"

\* str(e): the message of the exception, which is all that is stored in
\* workflow.error and task.error ("" stands for None, no error stored)
str(e) ==
  CASE e.kind = "none" -> ""
    [] e.kind = "circular_dependency" ->
         "Circular dependency detected in workflow tasks"
    [] e.kind = "workflow_not_found" -> "Workflow not found"
    [] e.kind = "cancelled" -> ""
    [] e.kind = "executor" -> ExecutorMessage(task_type(e.task))

NoResult == [kind |-> "none", task |-> 0]
\* the (non-empty) dict the executor of task t returns
ExecutorResult(t) == [kind |-> task_type(t), task |-> t]
\* the dict _get_workflow_results builds when there is no postprocess result
StatusResult(s) == [kind |-> s, task |-> 0]

\* ------------------------------------------------------------ Document
\* no Document row under the id
NoDocument == [status |-> "not_found", job_id |-> "", extraction_results |-> FALSE]
\* the row the upload endpoint inserts: processing, no job yet, no results
UploadedDocument ==
  [status |-> "processing", job_id |-> "", extraction_results |-> FALSE]
\* the id create_workflow gives the workflow (one workflow id is modelled)
WorkflowId == "wf"
\* after create_workflow: `document.status = "processing"`, `job_id = workflow_id`
ProcessingDocument(doc) ==
  [doc EXCEPT !.status = "processing", !.job_id = WorkflowId]

\* ---------------------------------------------------------------- helpers
\* iteration over a set of task ids, in ascending order
SetToSeq(S) ==
  [i \in 1..Cardinality(S) |->
     CHOOSE x \in S : Cardinality({y \in S : y < x}) = i - 1]

Reversed(s) == [i \in 1..Len(s) |-> s[Len(s) + 1 - i]]

Range(s) == {s[i] : i \in 1..Len(s)}

Remove(s, x) == SelectSeq(s, LAMBDA y : y # x)

NumDependencies(deps) ==
  Cardinality({p \in (DOMAIN deps) \X (DOMAIN deps) : p[2] \in deps[p[1]]})

\* ------------------------------------------------------ db_session.commit
\* the rows of the workflow, its tasks and edges, and its document
Rows(ws, we, deps, st, res, err, doc) ==
  [wf_status |-> ws, wf_error |-> we, dependencies |-> deps, status |-> st,
   result |-> res, error |-> err, document |-> doc]

\* db_session.commit(): what the session holds after this step is written
commit ==
  committed' = Rows(wf_status', wf_error', dependencies', status', result',
                    error', document')

\* ------------------------------------------------- _get_execution_order
RECURSIVE visit(_, _, _), visit_all(_, _, _)
\* visit(task_id) on the state st = [visited, temp_visited, order, cycle];
\* cycle stands for the ValueError that aborts the whole sort. (Each
\* intermediate state is bound by a quantifier so that it is computed once.)
visit(deps, st, task_id) ==
  IF st.cycle THEN st
  ELSE IF task_id \in st.temp_visited THEN [st EXCEPT !.cycle = TRUE]
  ELSE IF task_id \in st.visited THEN st
  ELSE CHOOSE left \in
         {IF after.cycle THEN after
          ELSE [after EXCEPT !.temp_visited = @ \ {task_id},
                             !.visited = @ \cup {task_id},
                             !.order = Append(@, task_id)] :
            after \in {visit_all(deps,
                                 [st EXCEPT !.temp_visited = @ \cup {task_id}],
                                 SetToSeq(deps[task_id]))}} : TRUE

visit_all(deps, st, ids) ==
  IF ids = <<>> \/ st.cycle THEN st
  ELSE CHOOSE last \in
         {visit_all(deps, next, Tail(ids)) :
            next \in {visit(deps, st, Head(ids))}} : TRUE

\* the sort with a visit that never raises on a task met again on its own path
get_execution_order_NoCycleError(deps) ==
  LET RECURSIVE v(_, _), va(_, _)
      v(st, task_id) ==
        IF task_id \in st.temp_visited \/ task_id \in st.visited THEN st
        ELSE LET after == va([st EXCEPT !.temp_visited = @ \cup {task_id}],
                             SetToSeq(deps[task_id]))
             IN [after EXCEPT !.temp_visited = @ \ {task_id},
                              !.visited = @ \cup {task_id},
                              !.order = Append(@, task_id)]
      va(st, ids) == IF ids = <<>> THEN st ELSE va(v(st, Head(ids)), Tail(ids))
  IN [cycle |-> FALSE,
      order |-> Reversed(va([visited |-> {}, temp_visited |-> {}, order |-> <<>>],
                            SetToSeq(Tasks)).order)]

\* [cycle |-> the circular-dependency error was raised, order |-> the list returned]
get_execution_order(deps) ==
  LET st == visit_all(deps,
                      [visited |-> {}, temp_visited |-> {}, order |-> <<>>,
                       cycle |-> FALSE],
                      SetToSeq(Tasks))
  IN [cycle |-> st.cycle,
      order |-> IF st.cycle THEN <<>> ELSE Reversed(st.order)]

\* ------------------------------------------------------------ Task
\* Task.can_execute(): pending, and every dependency completed
can_execute(t) ==
  /\ status[t] = PENDING
  /\ \A d \in dependencies[t] : status[d] = COMPLETED

\* ------------------------------------------------- _get_workflow_results
\* results taken from the first completed task, whatever its kind
get_workflow_results_AnyTask(workflow_status) ==
  LET done == {t \in Tasks : status[t] = COMPLETED}
  IN IF done # {} /\ result[CHOOSE t \in done : \A u \in done : t <= u] # NoResult
     THEN result[CHOOSE t \in done : \A u \in done : t <= u]
     ELSE StatusResult(workflow_status)

\* (workflow_status: workflow.status when it is called)
get_workflow_results(workflow_status) ==
  LET done == {t \in Tasks : task_type(t) = "postprocess" /\ status[t] = COMPLETED}
  IN IF done # {} /\ result[CHOOSE t \in done : \A u \in done : t <= u] # NoResult
     THEN result[CHOOSE t \in done : \A u \in done : t <= u]
     ELSE StatusResult(workflow_status)

\* ---------------------------------------------------- get_workflow_status
\* no get_workflow_status call returned yet
NoReply == [status |-> "no_reply"]

\* the greatest common divisor of a >= 0 and b > 0
GCD(a, b) ==
  CHOOSE d \in 1..b : /\ a % d = 0 /\ b % d = 0
                      /\ \A e \in 1..b : (a % e = 0 /\ b % e = 0) => e <= d

\* (completed / total) * 100, kept as the fraction <<numerator, denominator>>
\* in lowest terms; 0 when there is no task
progress_of(completed, total) ==
  IF total > 0
  THEN <<(completed * 100) \div GCD(completed * 100, total),
         total \div GCD(completed * 100, total)>>
  ELSE <<0, 1>>

\* the loop over workflow.tasks that counts the tasks of each status
task_counts_of(st) ==
  [total |-> Cardinality(DOMAIN st),
   pending |-> Cardinality({t \in DOMAIN st : st[t] = PENDING}),
   running |-> Cardinality({t \in DOMAIN st : st[t] = RUNNING}),
   completed |-> Cardinality({t \in DOMAIN st : st[t] = COMPLETED}),
   failed |-> Cardinality({t \in DOMAIN st : st[t] = FAILED})]

\* a reply whose progress counts the tasks that are over, failed ones included
get_workflow_status_CountsFailed ==
  IF wf_status = NOT_FOUND THEN [status |-> NOT_FOUND]
  ELSE [status |-> wf_status,
        error |-> wf_error,
        task_counts |-> task_counts_of(status),
        progress |-> progress_of(task_counts_of(status).completed
                                   + task_counts_of(status).failed,
                                 task_counts_of(status).total)]

\* What get_workflow_status returns for the rows as they are now (the ids and
\* the stored timestamps it copies are left out).
get_workflow_status ==
  IF wf_status = NOT_FOUND THEN [status |-> NOT_FOUND]
  ELSE [status |-> wf_status,
        error |-> wf_error,
        task_counts |-> task_counts_of(status),
        progress |-> progress_of(task_counts_of(status).completed,
                                 task_counts_of(status).total)]

\* ------------------------------------------------- validate_results executor
\* no call of the validate_results executor is under study
NoValidation == [outcome |-> "none"]

\* a lookup among all the tasks of the workflow
get_dependency_task_AnyTask(t, kind) ==
  IF \E d \in Tasks : task_type(d) = kind
  THEN CHOOSE d \in Tasks : task_type(d) = kind
  ELSE 0

\* _get_dependency_task: the first task of the kind among the tasks that t
\* depends on directly (its TaskDependency rows), 0 for None
get_dependency_task(t, kind) ==
  IF \E d \in dependencies[t] : task_type(d) = kind
  THEN CHOOSE d \in dependencies[t] :
         /\ task_type(d) = kind
         /\ \A e \in dependencies[t] : task_type(e) = kind => d <= e
  ELSE 0

\* the kinds the executor of each kind passes to _get_dependency_task, each
\* followed by `raise ValueError("... task result not found")` when the
\* lookup gives nothing
executor_lookups(kind) ==
  CASE kind = "preprocess" -> {}
    [] kind = "extract_text" -> {"preprocess"}
    [] kind = "analyze_layout" -> {"extract_text", "preprocess"}
    [] kind = "understand_document" -> {"analyze_layout", "extract_text"}
    [] kind \in {"extract_fields", "extract_tables"} ->
         {"understand_document", "analyze_layout", "extract_text"}
    [] kind = "validate_results" ->
         {"extract_fields", "extract_tables", "understand_document",
          "extract_text"}
    [] kind = "postprocess" -> {"validate_results"}

\* `if not x_task or not x_task.result`
dependency_result_missing(t, kind) ==
  \/ get_dependency_task(t, kind) = 0
  \/ result[get_dependency_task(t, kind)] = NoResult

\* What the extraction results hold and what the reasoning engine does with
\* them: llm is what validate_extraction does (it returns a validation that
\* says valid or invalid, returns nothing, or raises).
ValidationInputs ==
  [llm : {"valid", "invalid", "nothing", "raises"},
   required_field_missing : BOOLEAN,
   required_table_missing : BOOLEAN,
   malformed_value : BOOLEAN]

\* _validate_extraction_results, the basic validation
validate_extraction_results(in) ==
  [valid |-> ~(in.required_field_missing \/ in.required_table_missing),
   errors |-> (IF in.required_field_missing THEN {"required field missing"} ELSE {})
                \cup (IF in.required_table_missing THEN {"required table missing"}
                      ELSE {}),
   warnings |-> IF in.malformed_value THEN {"invalid format"} ELSE {}]

\* _execute_validate_results_task for the task t: what it returns, or the
\* ValueError it raises
execute_validate_results_task(t, in) ==
  IF dependency_result_missing(t, "extract_fields")
  THEN [outcome |-> "raised", message |-> "Field extraction task result not found"]
  ELSE IF dependency_result_missing(t, "extract_tables")
  THEN [outcome |-> "raised", message |-> "Table extraction task result not found"]
  ELSE IF dependency_result_missing(t, "understand_document")
  THEN [outcome |-> "raised",
        message |-> "Document understanding task result not found"]
  ELSE IF dependency_result_missing(t, "extract_text")
  THEN [outcome |-> "raised", message |-> "Text extraction task result not found"]
  ELSE [outcome |-> "returned",
        validation |-> IF in.llm \in {"valid", "invalid"}
                       THEN [valid |-> in.llm = "valid", errors |-> {},
                             warnings |-> {}]
                       ELSE validate_extraction_results(in)]

\* ------------------------------------------------------ workflow service
\* WorkflowExecutor(db_session=db): the default of max_concurrency
DefaultMaxConcurrency == 4

\* The workflow create_workflow builds: one task of each kind, in the order
\* of TaskType, and the eight TaskDependency rows of _create_task_dependencies.
ServiceDependencies ==
  [t \in 1..Len(TaskType) |->
     CASE task_type_of_service(t) = "preprocess" -> {}
       [] task_type_of_service(t) = "extract_text" -> {1}
       [] task_type_of_service(t) = "analyze_layout" -> {2}
       [] task_type_of_service(t) = "understand_document" -> {3}
       [] task_type_of_service(t) = "extract_fields" -> {4}
       [] task_type_of_service(t) = "extract_tables" -> {4}
       [] task_type_of_service(t) = "validate_results" -> {5, 6}
       [] task_type_of_service(t) = "postprocess" -> {7}]

\* the workflow under execution is the one the service built
IsServiceWorkflow == dependencies = ServiceDependencies

\* the task of the given kind in the service's workflow
TaskOfKind(kind) == CHOOSE t \in 1..Len(TaskType) : TaskType[t] = kind

\* create_workflow was not called, or it is over and its session closed
NoCreate == [pc |-> "idle", tasks |-> <<>>, edges |-> {}]

\* ---------------------------------------------------------------- Init
\* The workflow row and its tasks before execute_workflow is called: any
\* workflow of NumTasks tasks, the workflow of the service, a workflow without
\* tasks, or no workflow under the id at all.
InitWorkflow ==
  \/ /\ dependencies \in {d \in [1..NumTasks -> SUBSET (1..NumTasks)] :
                            NumDependencies(d) <= MaxDependencies}
     /\ max_concurrency \in 1..MaxConcurrency
     /\ wf_status = PENDING
     /\ document = ProcessingDocument(UploadedDocument)
  \/ /\ dependencies = ServiceDependencies
     /\ max_concurrency = DefaultMaxConcurrency
     /\ wf_status = PENDING
     /\ document = ProcessingDocument(UploadedDocument)
  \/ /\ dependencies = <<>>
     /\ max_concurrency = DefaultMaxConcurrency
     /\ \/ wf_status = PENDING /\ document = UploadedDocument
        \/ wf_status = NOT_FOUND /\ document \in {NoDocument, UploadedDocument}

Init ==
  /\ InitWorkflow
  /\ status_reply = NoReply
  /\ validation = NoValidation
  /\ wf_error = str(NoError)
  /\ status = [t \in Tasks |-> PENDING]
  /\ result = [t \in Tasks |-> NoResult]
  /\ error = [t \in Tasks |-> str(NoError)]
  /\ calls = [t \in Tasks |-> 0]
  /\ order = <<>>
  /\ pc = "idle"
  /\ cpc = [t \in Tasks |-> "none"]
  /\ ready = <<>>
  /\ sem_value = 0
  /\ sem_waiters = <<>>
  /\ outer_done = FALSE
  /\ gather_exc = NoError
  /\ returned = NoResult
  /\ raised = NoError
  /\ completed_at = [t \in Tasks |-> FALSE]
  /\ wf_completed_at = FALSE
  /\ committed = Rows(wf_status, wf_error, dependencies, status, result, error,
                      document)
  /\ create = NoCreate

\* --------------------------------- _execute_task on a validate_results task
\* the upstream stages whose results the validate_results executor reads
UpstreamKinds ==
  {"extract_text", "understand_document", "extract_fields", "extract_tables"}

\* The workflow of the service with its six upstream tasks over, the
\* validate_results task pending, and some of the upstream tasks as the
\* direct dependencies of validate_results (the service gives it
\* extract_fields and extract_tables); no execute_workflow runs. The upstream
\* tasks are completed, each with its result, but for extract_tables, which
\* may have failed instead.
ValidateInit ==
  /\ \E direct \in SUBSET {TaskOfKind(k) : k \in UpstreamKinds} :
       dependencies =
         [ServiceDependencies EXCEPT ![TaskOfKind("validate_results")] = direct]
  /\ max_concurrency = DefaultMaxConcurrency
  /\ wf_status = PENDING
  /\ wf_error = str(NoError)
  /\ \E failed \in SUBSET {TaskOfKind("extract_tables")} :
       /\ status = [t \in Tasks |->
                      IF t \in failed THEN FAILED
                      ELSE IF t < TaskOfKind("validate_results") THEN COMPLETED
                      ELSE PENDING]
       /\ result = [t \in Tasks |->
                      IF t < TaskOfKind("validate_results") /\ t \notin failed
                      THEN ExecutorResult(t) ELSE NoResult]
       /\ error = [t \in Tasks |->
                     IF t \in failed THEN str(ExecutorError(t)) ELSE str(NoError)]
       /\ completed_at = [t \in Tasks |->
                            t < TaskOfKind("validate_results") /\ t \notin failed]
  /\ calls = [t \in Tasks |->
                IF t < TaskOfKind("validate_results") THEN 1 ELSE 0]
  /\ validation \in [in : ValidationInputs, outcome : {"not_called"}]
  /\ wf_completed_at = FALSE
  /\ document = ProcessingDocument(UploadedDocument)
  /\ committed = Rows(wf_status, wf_error, dependencies, status, result, error,
                      document)
  /\ create = NoCreate
  /\ status_reply = NoReply
  /\ order = <<>> /\ pc = "idle" /\ cpc = [t \in Tasks |-> "none"]
  /\ ready = <<>> /\ sem_value = 0 /\ sem_waiters = <<>>
  /\ outer_done = FALSE /\ gather_exc = NoError
  /\ returned = NoResult /\ raised = NoError

\* _execute_task(task) on the validate_results task, from `can_execute` to
\* the commit of its outcome: nothing when the task cannot execute, else
\* COMPLETED with the result the executor returned, or FAILED with the
\* message of the error it raised.
ExecuteValidateResultsTask ==
  LET t == TaskOfKind("validate_results") IN
  /\ validation.outcome = "not_called"
  /\ IF ~can_execute(t)
     THEN /\ validation' = [in |-> validation.in, outcome |-> "skipped"]
          /\ UNCHANGED <<calls, status, result, error, completed_at>>
     ELSE \E out \in {execute_validate_results_task(t, validation.in)} :
       /\ validation' = [in |-> validation.in, outcome |-> out.outcome, out |-> out]
       /\ calls' = [calls EXCEPT ![t] = @ + 1]
       /\ IF out.outcome = "returned"
          THEN /\ status' = [status EXCEPT ![t] = COMPLETED]
               /\ result' = [result EXCEPT ![t] = ExecutorResult(t)]
               /\ completed_at' = [completed_at EXCEPT ![t] = TRUE]
               /\ UNCHANGED error
          ELSE /\ status' = [status EXCEPT ![t] = FAILED]
               /\ error' = [error EXCEPT ![t] = out.message]
               /\ UNCHANGED <<result, completed_at>>
  /\ UNCHANGED <<status_reply, dependencies, max_concurrency, wf_status,
                 wf_error, order, pc, cpc, ready, sem_value, sem_waiters,
                 outer_done, gather_exc, returned, raised, wf_completed_at,
                 document, create>>
  /\ commit

ValidateSpec == ValidateInit /\ [][ExecuteValidateResultsTask]_vars

\* ------------------------------------------------------ asyncio.Semaphore
\* Semaphore.locked()
locked == sem_value = 0 \/ sem_waiters # <<>>

\* the first waiter that was not woken yet, 0 when there is none
next_waiter(c) ==
  LET idx == {i \in 1..Len(sem_waiters) : c[sem_waiters[i]] = "waiting"}
  IN IF idx = {} THEN 0
     ELSE sem_waiters[CHOOSE i \in idx : \A j \in idx : i <= j]

\* the end of a coroutine under gather(return_exceptions=True): an exception
\* of a task is kept as a result and never raised to execute_workflow
finish_task_ReturnExceptions(t, exc) ==
  LET w == next_waiter(cpc)
      ended == [cpc EXCEPT ![t] = IF exc = NoError THEN "done" ELSE "raised"]
      cpc1 == IF w = 0 THEN ended ELSE [ended EXCEPT ![w] = "woken"]
      rdy1 == IF w = 0 THEN Tail(ready) ELSE Append(Tail(ready), w)
      notify == /\ ~outer_done
                /\ \A u \in Tasks : cpc1[u] \in {"done", "raised"}
  IN /\ sem_value' = IF w = 0 THEN sem_value + 1 ELSE sem_value
     /\ cpc' = cpc1
     /\ ready' = IF notify THEN Append(rdy1, Main) ELSE rdy1
     /\ outer_done' = (outer_done \/ notify)
     /\ UNCHANGED <<gather_exc, sem_waiters>>

\* The end of _execute_task_with_semaphore for task t, with the exception exc
\* it ends with (NoError when it returns): `async with` releases the semaphore
\* and wakes the next waiter, the coroutine ends, and asyncio.gather is told.
finish_task(t, exc) ==
  LET w == next_waiter(cpc)
      ended == [cpc EXCEPT ![t] = IF exc = NoError THEN "done" ELSE "raised"]
      cpc1 == IF w = 0 THEN ended ELSE [ended EXCEPT ![w] = "woken"]
      rdy1 == IF w = 0 THEN Tail(ready) ELSE Append(Tail(ready), w)
      notify == /\ ~outer_done
                /\ \/ exc # NoError
                   \/ \A u \in Tasks : cpc1[u] \in {"done", "raised"}
  IN /\ sem_value' = IF w = 0 THEN sem_value + 1 ELSE sem_value
     /\ cpc' = cpc1
     /\ ready' = IF notify THEN Append(rdy1, Main) ELSE rdy1
     /\ outer_done' = (outer_done \/ notify)
     /\ gather_exc' = IF notify THEN exc ELSE gather_exc
     /\ UNCHANGED sem_waiters

\* the coroutine of task t is the one the event loop runs now
is_running(t) == pc \in {"gather", "returned", "raised"} /\ ready # <<>> /\ Head(ready) = t

\* ------------------------------------------------ workflow_service.execute_workflow
\* The service finds the workflow and calls WorkflowExecutor.execute_workflow,
\* which marks the workflow running and commits.
StartWorkflow ==
  /\ pc = "idle"
  /\ wf_status # NOT_FOUND
  /\ wf_status' = RUNNING
  /\ pc' = "started"
  /\ UNCHANGED <<create, status_reply, validation, dependencies, max_concurrency,
                 wf_error, status, result, error,
                 calls, order, cpc, ready, sem_value, sem_waiters, outer_done,
                 gather_exc, returned, raised>>
  /\ UNCHANGED <<document, completed_at, wf_completed_at>>
  /\ commit

\* a handler that records the failure without looking whether the row exists
RaiseWorkflowNotFound_MarksFailed ==
  /\ pc = "idle"
  /\ wf_status = NOT_FOUND
  /\ wf_status' = FAILED
  /\ wf_error' = str(WorkflowNotFound)
  /\ raised' = WorkflowNotFound
  /\ pc' = "raised"
  /\ UNCHANGED <<create, status_reply, validation, dependencies, max_concurrency,
                 status, result, error, calls, order, cpc, ready, sem_value,
                 sem_waiters, outer_done, gather_exc, returned>>
  /\ UNCHANGED <<document, completed_at, wf_completed_at>>
  /\ commit

\* The service finds no workflow: it raises ValueError, its handler finds no
\* row to update, and the error goes to the caller.
RaiseWorkflowNotFound ==
  /\ pc = "idle"
  /\ wf_status = NOT_FOUND
  /\ raised' = WorkflowNotFound
  /\ pc' = "raised"
  /\ UNCHANGED <<create, status_reply, validation, dependencies, max_concurrency,
                 wf_status, wf_error, status, result, error, calls, order, cpc,
                 ready, sem_value, sem_waiters, outer_done, gather_exc, returned>>
  /\ UNCHANGED <<document, committed, completed_at, wf_completed_at>>

\* The try block up to `await asyncio.gather`: the execution order, the
\* semaphore, one coroutine per task in that order.
DispatchTasks ==
  /\ pc = "started"
  /\ \E o \in {get_execution_order(dependencies)} :
        IF o.cycle
        THEN /\ gather_exc' = CircularDependency
             /\ pc' = "except"
             /\ UNCHANGED <<order, cpc, ready, sem_value, outer_done>>
        ELSE /\ order' = o.order
             /\ sem_value' = max_concurrency
             /\ cpc' = [t \in Tasks |-> IF t \in Range(o.order) THEN "created" ELSE "none"]
             \* gather() of no coroutine is done at once: no suspension
             /\ ready' = IF o.order = <<>> THEN <<Main>> ELSE o.order
             /\ outer_done' = (o.order = <<>>)
             /\ pc' = "gather"
             /\ UNCHANGED gather_exc
  /\ UNCHANGED <<create, status_reply, validation, dependencies, max_concurrency,
                 wf_status, wf_error, status, result,
                 error, calls, sem_waiters, returned, raised>>
  /\ UNCHANGED <<document, committed, completed_at, wf_completed_at>>

\* ------------------------------------------- _execute_task_with_semaphore
\* acquire() that takes a slot even when none is free
Acquire_NeverWaits(t) ==
  /\ is_running(t)
  /\ cpc[t] = "created"
  /\ sem_value' = sem_value - 1
  /\ cpc' = [cpc EXCEPT ![t] = "acquired"]
  /\ UNCHANGED <<create, status_reply, validation, dependencies, max_concurrency,
                 wf_status, wf_error, status, result,
                 error, calls, order, pc, ready, sem_waiters, outer_done, gather_exc,
                 returned, raised>>
  /\ UNCHANGED <<document, committed, completed_at, wf_completed_at>>

\* `async with semaphore` on entry: Semaphore.acquire()
Acquire(t) ==
  /\ is_running(t)
  /\ cpc[t] = "created"
  /\ IF ~locked
     THEN /\ sem_value' = sem_value - 1
          /\ cpc' = [cpc EXCEPT ![t] = "acquired"]
          /\ UNCHANGED <<ready, sem_waiters>>
     ELSE /\ sem_waiters' = Append(sem_waiters, t)
          /\ cpc' = [cpc EXCEPT ![t] = "waiting"]
          /\ ready' = Tail(ready)
          /\ UNCHANGED sem_value
  /\ UNCHANGED <<create, status_reply, validation, dependencies, max_concurrency,
                 wf_status, wf_error, status, result,
                 error, calls, order, pc, outer_done, gather_exc, returned, raised>>
  /\ UNCHANGED <<document, committed, completed_at, wf_completed_at>>

\* Semaphore.acquire() resumes after release() handed it the slot: it leaves
\* the waiters and, if there is a free slot left, wakes the next waiter.
AcquireWoken(t) ==
  /\ is_running(t)
  /\ cpc[t] = "woken"
  /\ LET rest == Remove(sem_waiters, t)
         idx == {i \in 1..Len(rest) : cpc[rest[i]] = "waiting"}
         w == IF sem_value > 0 /\ idx # {}
              THEN rest[CHOOSE i \in idx : \A j \in idx : i <= j] ELSE 0
     IN /\ sem_waiters' = rest
        /\ sem_value' = IF w = 0 THEN sem_value ELSE sem_value - 1
        /\ cpc' = IF w = 0 THEN [cpc EXCEPT ![t] = "acquired"]
                  ELSE [cpc EXCEPT ![t] = "acquired", ![w] = "woken"]
        /\ ready' = IF w = 0 THEN ready ELSE Append(ready, w)
  /\ UNCHANGED <<create, status_reply, validation, dependencies, max_concurrency,
                 wf_status, wf_error, status, result,
                 error, calls, order, pc, outer_done, gather_exc, returned, raised>>
  /\ UNCHANGED <<document, committed, completed_at, wf_completed_at>>

\* ------------------------------------------------------------ _execute_task
\* What the executor of task t leaves in workflow.document when it returns:
\* the postprocess executor stores the results and marks the document
\* completed (`if workflow.document:`), the others do not touch it.
executor_document(t) ==
  IF task_type(t) = "postprocess" /\ document # NoDocument
  THEN [document EXCEPT !.status = "completed", !.extraction_results = TRUE]
  ELSE document

\* a skip that marks the task it does not start as failed
SkipTask_MarksFailed(t) ==
  /\ is_running(t)
  /\ cpc[t] = "acquired"
  /\ ~can_execute(t)
  /\ status' = [status EXCEPT ![t] = FAILED]
  /\ finish_task(t, NoError)
  /\ UNCHANGED <<create, status_reply, validation, dependencies, max_concurrency,
                 wf_status, wf_error, result,
                 error, calls, order, pc, returned, raised>>
  /\ UNCHANGED <<document, completed_at, wf_completed_at>>
  /\ commit

\* a task that cannot execute yet waits, with its slot, until it can
SkipTask_WaitsForDependencies(t) ==
  /\ is_running(t)
  /\ cpc[t] = "acquired"
  /\ ~can_execute(t)
  /\ ready' = Append(Tail(ready), t)
  /\ UNCHANGED <<create, status_reply, validation, dependencies, max_concurrency,
                 wf_status, wf_error, status, result, error, calls, order, pc,
                 cpc, sem_value, sem_waiters, outer_done, gather_exc, returned,
                 raised>>
  /\ UNCHANGED <<document, committed, completed_at, wf_completed_at>>

\* a task that cannot execute makes _execute_task raise
SkipTask_Raises(t) ==
  /\ is_running(t)
  /\ cpc[t] = "acquired"
  /\ ~can_execute(t)
  /\ finish_task(t, ExecutorError(t))
  /\ UNCHANGED <<create, status_reply, validation, dependencies, max_concurrency,
                 wf_status, wf_error, status, result,
                 error, calls, order, pc, returned, raised>>
  /\ UNCHANGED <<document, committed, completed_at, wf_completed_at>>

\* `if not task.can_execute(): return`
SkipTask(t) ==
  /\ is_running(t)
  /\ cpc[t] = "acquired"
  /\ ~can_execute(t)
  /\ finish_task(t, NoError)
  /\ UNCHANGED <<create, status_reply, validation, dependencies, max_concurrency,
                 wf_status, wf_error, status, result,
                 error, calls, order, pc, returned, raised>>
  /\ UNCHANGED <<document, committed, completed_at, wf_completed_at>>

\* a start that checks the task's own status and not its dependencies
MarkRunning_IgnoringDependencies(t) ==
  /\ is_running(t)
  /\ cpc[t] = "acquired"
  /\ status[t] = PENDING
  /\ status' = [status EXCEPT ![t] = RUNNING]
  /\ cpc' = [cpc EXCEPT ![t] = "calling"]
  /\ UNCHANGED <<create, status_reply, validation, dependencies, max_concurrency,
                 wf_status, wf_error, result, error,
                 calls, order, pc, ready, sem_value, sem_waiters, outer_done,
                 gather_exc, returned, raised>>
  /\ UNCHANGED <<document, completed_at, wf_completed_at>>
  /\ commit

\* a start that leaves the RUNNING status in the session, uncommitted
MarkRunning_NoCommit(t) ==
  /\ is_running(t)
  /\ cpc[t] = "acquired"
  /\ can_execute(t)
  /\ status' = [status EXCEPT ![t] = RUNNING]
  /\ cpc' = [cpc EXCEPT ![t] = "calling"]
  /\ UNCHANGED <<create, status_reply, validation, dependencies, max_concurrency,
                 wf_status, wf_error, result, error,
                 calls, order, pc, ready, sem_value, sem_waiters, outer_done,
                 gather_exc, returned, raised>>
  /\ UNCHANGED <<document, committed, completed_at, wf_completed_at>>

\* task.status = RUNNING, commit
MarkRunning(t) ==
  /\ is_running(t)
  /\ cpc[t] = "acquired"
  /\ can_execute(t)
  /\ status' = [status EXCEPT ![t] = RUNNING]
  /\ cpc' = [cpc EXCEPT ![t] = "calling"]
  /\ UNCHANGED <<create, status_reply, validation, dependencies, max_concurrency,
                 wf_status, wf_error, result, error,
                 calls, order, pc, ready, sem_value, sem_waiters, outer_done,
                 gather_exc, returned, raised>>
  /\ UNCHANGED <<document, completed_at, wf_completed_at>>
  /\ commit

\* `result = await executor(task)`: the executor is invoked; it returns or
\* raises without suspending, or it suspends on something it awaits.
CallExecutor(t) ==
  /\ is_running(t)
  /\ cpc[t] = "calling"
  /\ calls' = [calls EXCEPT ![t] = @ + 1]
  /\ \/ /\ cpc' = [cpc EXCEPT ![t] = "executor"]
        /\ ready' = Tail(ready)
     \/ /\ cpc' = [cpc EXCEPT ![t] = "resumed_ok"]
        /\ UNCHANGED ready
     \/ /\ cpc' = [cpc EXCEPT ![t] = "resumed_err"]
        /\ UNCHANGED ready
  /\ UNCHANGED <<create, status_reply, validation, dependencies, max_concurrency,
                 wf_status, wf_error, status, result,
                 error, order, pc, sem_value, sem_waiters, outer_done, gather_exc,
                 returned, raised>>
  /\ UNCHANGED <<document, committed, completed_at, wf_completed_at>>

\* What the suspended executor awaits completes: the coroutine is scheduled
\* again, with the executor's return (ok) or its exception.
ExecutorResumes(t) ==
  /\ pc \in {"gather", "returned", "raised"}
  /\ cpc[t] = "executor"
  /\ \E outcome \in {"resumed_ok", "resumed_err"} :
       cpc' = [cpc EXCEPT ![t] = outcome]
  /\ ready' = Append(ready, t)
  /\ UNCHANGED <<create, status_reply, validation, dependencies, max_concurrency,
                 wf_status, wf_error, status, result,
                 error, calls, order, pc, sem_value, sem_waiters, outer_done,
                 gather_exc, returned, raised>>
  /\ UNCHANGED <<document, committed, completed_at, wf_completed_at>>

\* the executor returned: result, COMPLETED, commit
CompleteTask(t) ==
  /\ is_running(t)
  /\ cpc[t] = "resumed_ok"
  /\ result' = [result EXCEPT ![t] = ExecutorResult(t)]
  /\ status' = [status EXCEPT ![t] = COMPLETED]
  /\ finish_task(t, NoError)
  /\ UNCHANGED <<create, status_reply, validation, dependencies, max_concurrency,
                 wf_status, wf_error, error, calls,
                 order, pc, returned, raised>>
  /\ completed_at' = [completed_at EXCEPT ![t] = TRUE]
  /\ document' = executor_document(t)
  /\ UNCHANGED <<wf_completed_at>>
  /\ commit

\* an error handler that puts the task back to pending
FailTask_BackToPending(t) ==
  /\ is_running(t)
  /\ cpc[t] = "resumed_err"
  /\ status' = [status EXCEPT ![t] = PENDING]
  /\ error' = [error EXCEPT ![t] = str(ExecutorError(t))]
  /\ finish_task(t, ExecutorError(t))
  /\ UNCHANGED <<create, status_reply, validation, dependencies, max_concurrency,
                 wf_status, wf_error, result, calls,
                 order, pc, returned, raised>>
  /\ UNCHANGED <<document, completed_at, wf_completed_at>>
  /\ commit

\* an error handler that also stores what the executor had produced
FailTask_StoresResult(t) ==
  /\ is_running(t)
  /\ cpc[t] = "resumed_err"
  /\ status' = [status EXCEPT ![t] = FAILED]
  /\ error' = [error EXCEPT ![t] = str(ExecutorError(t))]
  /\ result' = [result EXCEPT ![t] = ExecutorResult(t)]
  /\ finish_task(t, ExecutorError(t))
  /\ UNCHANGED <<create, status_reply, validation, dependencies, max_concurrency,
                 wf_status, wf_error, calls,
                 order, pc, returned, raised>>
  /\ UNCHANGED <<document, completed_at, wf_completed_at>>
  /\ commit

\* the executor raised: FAILED, error, commit, re-raise
FailTask(t) ==
  /\ is_running(t)
  /\ cpc[t] = "resumed_err"
  /\ status' = [status EXCEPT ![t] = FAILED]
  /\ error' = [error EXCEPT ![t] = str(ExecutorError(t))]
  /\ finish_task(t, ExecutorError(t))
  /\ UNCHANGED <<create, status_reply, validation, dependencies, max_concurrency,
                 wf_status, wf_error, result, calls,
                 order, pc, returned, raised>>
  /\ UNCHANGED <<document, completed_at, wf_completed_at>>
  /\ commit

\* ------------------------------------------------ after asyncio.gather
\* COMPLETED set as soon as gather is over, before its exception is looked at
CompleteWorkflow_BeforeException ==
  /\ pc = "gather"
  /\ ready # <<>> /\ Head(ready) = Main
  /\ wf_status' = COMPLETED
  /\ IF gather_exc = NoError
     THEN returned' = get_workflow_results(COMPLETED) /\ pc' = "returned"
     ELSE UNCHANGED returned /\ pc' = "except"
  /\ ready' = Tail(ready)
  /\ UNCHANGED <<create, status_reply, validation, dependencies, max_concurrency,
                 wf_error, status, result, error,
                 calls, order, cpc, sem_value, sem_waiters, outer_done, gather_exc,
                 raised>>
  /\ wf_completed_at' = TRUE
  /\ UNCHANGED <<document, completed_at>>
  /\ commit

\* every coroutine returned: COMPLETED, commit, return the workflow results
\* (the service returns them to its caller)
CompleteWorkflow ==
  /\ pc = "gather"
  /\ ready # <<>> /\ Head(ready) = Main
  /\ gather_exc = NoError
  /\ wf_status' = COMPLETED
  /\ returned' = get_workflow_results(COMPLETED)
  /\ pc' = "returned"
  /\ ready' = Tail(ready)
  /\ UNCHANGED <<create, status_reply, validation, dependencies, max_concurrency,
                 wf_error, status, result, error,
                 calls, order, cpc, sem_value, sem_waiters, outer_done, gather_exc,
                 raised>>
  /\ wf_completed_at' = TRUE
  /\ UNCHANGED <<document, completed_at>>
  /\ commit

\* asyncio.gather raised the first exception of a coroutine
GatherRaises ==
  /\ pc = "gather"
  /\ ready # <<>> /\ Head(ready) = Main
  /\ gather_exc # NoError
  /\ pc' = "except"
  /\ ready' = Tail(ready)
  /\ UNCHANGED <<create, status_reply, validation, dependencies, max_concurrency,
                 wf_status, wf_error, status, result,
                 error, calls, order, cpc, sem_value, sem_waiters, outer_done,
                 gather_exc, returned, raised>>
  /\ UNCHANGED <<document, committed, completed_at, wf_completed_at>>

\* `except Exception as e` of WorkflowExecutor.execute_workflow
FailWorkflow ==
  /\ pc = "except"
  /\ wf_status' = FAILED
  /\ wf_error' = str(gather_exc)
  /\ pc' = "service_except"
  /\ UNCHANGED <<create, status_reply, validation, dependencies, max_concurrency,
                 status, result, error, calls, order,
                 cpc, ready, sem_value, sem_waiters, outer_done, gather_exc,
                 returned, raised>>
  /\ UNCHANGED <<document, completed_at, wf_completed_at>>
  /\ commit

\* `except Exception as e` of the service's execute_workflow
ServiceFailWorkflow ==
  /\ pc = "service_except"
  /\ wf_status' = FAILED
  /\ wf_error' = str(gather_exc)
  /\ raised' = gather_exc
  /\ pc' = "raised"
  /\ UNCHANGED <<create, status_reply, validation, dependencies, max_concurrency,
                 status, result, error, calls, order,
                 cpc, ready, sem_value, sem_waiters, outer_done, gather_exc,
                 returned>>
  /\ UNCHANGED <<document, completed_at, wf_completed_at>>
  /\ commit

\* the steps the event loop takes on its own
RunLoop ==
  \/ StartWorkflow
  \/ RaiseWorkflowNotFound
  \/ DispatchTasks
  \/ \E t \in Tasks : Acquire(t)
  \/ \E t \in Tasks : AcquireWoken(t)
  \/ \E t \in Tasks : SkipTask(t)
  \/ \E t \in Tasks : MarkRunning(t)
  \/ \E t \in Tasks : CallExecutor(t)
  \/ \E t \in Tasks : CompleteTask(t)
  \/ \E t \in Tasks : FailTask(t)
  \/ CompleteWorkflow
  \/ GatherRaises
  \/ FailWorkflow
  \/ ServiceFailWorkflow

Next ==
  \/ RunLoop
  \/ \E t \in Tasks : ExecutorResumes(t)

Spec == Init /\ [][Next]_vars

\* The event loop runs every coroutine that is ready; an executor may never
\* come back.
FairSpec == Spec /\ WF_vars(RunLoop)

\* ... and every executor call returns or raises in the end.
LiveSpec == FairSpec /\ WF_vars(\E t \in Tasks : ExecutorResumes(t))

\* ------------------------------------------------------ status queries
\* a status query that marks a workflow it finds running as failed
GetWorkflowStatus_ClosesRunning ==
  /\ status_reply' = get_workflow_status
  /\ wf_status' = IF wf_status = RUNNING THEN FAILED ELSE wf_status
  /\ UNCHANGED <<validation, dependencies, max_concurrency, wf_error,
                 status, result, error, calls, order, pc, cpc, ready, sem_value,
                 sem_waiters, outer_done, gather_exc, returned, raised>>
  /\ UNCHANGED <<create, document, completed_at, wf_completed_at>>
  /\ commit

\* A caller asks for the status of the workflow: get_workflow_status reads
\* the committed rows (it awaits nothing) and returns.
GetWorkflowStatus ==
  /\ status_reply' = get_workflow_status
  /\ UNCHANGED <<validation, dependencies, max_concurrency, wf_status, wf_error,
                 status, result, error, calls, order, pc, cpc, ready, sem_value,
                 sem_waiters, outer_done, gather_exc, returned, raised>>
  /\ UNCHANGED <<create, document, committed, completed_at, wf_completed_at>>

\* an execution with status queries at any time
StatusNext == Next \/ GetWorkflowStatus
StatusSpec == Init /\ [][StatusNext]_vars

\* ------------------------------------------------------ cancellation
\* no coroutine is in the middle of a step: the event loop is between two
\* callbacks, where a caller's timeout can fire
between_callbacks ==
  IF ready = <<>> \/ Head(ready) = Main THEN TRUE
  ELSE cpc[Head(ready)] \in {"created", "woken", "resumed_ok", "resumed_err"}

\* The caller cancels execute_workflow while it awaits asyncio.gather
\* (asyncio.wait_for timing out, say). The future of gather cancels every
\* coroutine that has not ended: CancelledError is thrown into each at the
\* await it is suspended on (or at its start), it is no Exception, so no
\* `except Exception` of an executor or of _execute_task catches it and no
\* status is written; `async with` gives the slots back.
CancelWorkflow ==
  /\ pc = "gather"
  /\ between_callbacks
  /\ cpc' = [t \in Tasks |->
               IF cpc[t] \in {"none", "done", "raised"} THEN cpc[t]
               ELSE "cancelled"]
  /\ sem_waiters' = <<>>
  /\ sem_value' = max_concurrency
  /\ outer_done' = TRUE
  /\ gather_exc' = CancelledError
  /\ ready' = <<Main>>
  /\ pc' = "cancelled"
  /\ UNCHANGED <<create, status_reply, validation, dependencies, max_concurrency,
                 wf_status, wf_error, status, result, error, calls, order,
                 returned, raised>>
  /\ UNCHANGED <<document, committed, completed_at, wf_completed_at>>

\* CancelledError comes out of `await asyncio.gather`: neither the
\* `except Exception` of the executor nor that of the service catches it, the
\* `finally` of the service shuts the executor down and closes the session,
\* and the caller gets the CancelledError.
CancelledErrorPropagates ==
  /\ pc = "cancelled"
  /\ raised' = gather_exc
  /\ ready' = <<>>
  /\ pc' = "raised"
  /\ UNCHANGED <<create, status_reply, validation, dependencies, max_concurrency,
                 wf_status, wf_error, status, result, error, calls, order, cpc,
                 sem_value, sem_waiters, outer_done, gather_exc, returned>>
  /\ UNCHANGED <<document, committed, completed_at, wf_completed_at>>

\* an execution its caller may cancel
CancelNext == Next \/ CancelWorkflow \/ CancelledErrorPropagates
CancelSpec == Init /\ [][CancelNext]_vars

\* ------------------------------------------- workflow_service.create_workflow
\* _create_tasks: the eight Task objects, in the order it appends them
create_tasks(workflow_id) ==
  [i \in 1..Len(TaskType) |->
     [id |-> <<workflow_id, task_type_of_service(i)>>,
      workflow_id |-> workflow_id,
      task_type |-> task_type_of_service(i),
      status |-> PENDING]]

\* dependencies with an edge from preprocess back to postprocess
create_task_dependencies_Circular(tasks) ==
  LET id(kind) == <<tasks[1].workflow_id, kind>>
  IN {<<id("preprocess"), id("postprocess")>>,
      <<id("extract_text"), id("preprocess")>>,
      <<id("analyze_layout"), id("extract_text")>>,
      <<id("understand_document"), id("analyze_layout")>>,
      <<id("extract_fields"), id("understand_document")>>,
      <<id("extract_tables"), id("understand_document")>>,
      <<id("validate_results"), id("extract_fields")>>,
      <<id("validate_results"), id("extract_tables")>>,
      <<id("postprocess"), id("validate_results")>>}

\* _create_task_dependencies: the TaskDependency rows it adds, each
\* <<dependent_task_id, dependency_task_id>>
create_task_dependencies(tasks) ==
  LET id(kind) == <<tasks[1].workflow_id, kind>>
  IN {<<id("extract_text"), id("preprocess")>>,
      <<id("analyze_layout"), id("extract_text")>>,
      <<id("understand_document"), id("analyze_layout")>>,
      <<id("extract_fields"), id("understand_document")>>,
      <<id("extract_tables"), id("understand_document")>>,
      <<id("validate_results"), id("extract_fields")>>,
      <<id("validate_results"), id("extract_tables")>>,
      <<id("postprocess"), id("validate_results")>>}

\* task.dependencies of each task once the rows are stored: the tasks whose
\* id a TaskDependency row of the task names
task_dependencies(tasks, edges) ==
  [t \in 1..Len(tasks) |->
     {d \in 1..Len(tasks) : <<tasks[t].id, tasks[d].id>> \in edges}]

\* where create_workflow can raise: nowhere, or at one of its three commits
CreateFailures == {"none", "commit_workflow", "commit_tasks", "commit_document"}

\* create_workflow for the document, from the lookup of the document to its
\* return or its `except`: it awaits nothing, so no coroutine runs in between.
\* It commits the workflow row, then the tasks and their dependencies, then
\* the document; `fails` is the commit that raises. db.rollback() drops what
\* the session holds since the last commit that succeeded, so the rows left
\* are those of the commits before the failure.
CreateWorkflow ==
  /\ pc = "idle"
  /\ create.pc = "idle"
  /\ wf_status = NOT_FOUND
  /\ \E fails \in CreateFailures :
       LET tasks == create_tasks(WorkflowId)
           edges == create_task_dependencies(tasks)
           workflow_committed == document # NoDocument /\ fails # "commit_workflow"
           tasks_committed == workflow_committed /\ fails # "commit_tasks"
           document_committed == tasks_committed /\ fails # "commit_document"
           stored == IF tasks_committed THEN tasks ELSE <<>>
       IN /\ wf_status' = IF workflow_committed THEN PENDING ELSE NOT_FOUND
          /\ dependencies' =
               task_dependencies(stored, IF tasks_committed THEN edges ELSE {})
          /\ status' = [t \in DOMAIN stored |-> stored[t].status]
          /\ result' = [t \in DOMAIN stored |-> NoResult]
          /\ error' = [t \in DOMAIN stored |-> str(NoError)]
          /\ completed_at' = [t \in DOMAIN stored |-> FALSE]
          /\ calls' = [t \in DOMAIN stored |-> 0]
          /\ cpc' = [t \in DOMAIN stored |-> "none"]
          /\ document' = IF document_committed THEN ProcessingDocument(document)
                         ELSE document
          /\ create' = [pc |-> IF document_committed THEN "returned" ELSE "raised",
                        tasks |-> stored,
                        edges |-> IF tasks_committed THEN edges ELSE {}]
  /\ UNCHANGED <<status_reply, validation, max_concurrency, wf_error, order, pc,
                 ready, sem_value, sem_waiters, outer_done, gather_exc, returned,
                 raised, wf_completed_at>>
  /\ commit

\* the service creates the workflow of a document, and executes workflows
ServiceNext == Next \/ CreateWorkflow
ServiceSpec == Init /\ [][ServiceNext]_vars

\* ================================================================ claims
\* tasks that t depends on, directly or transitively
RECURSIVE Reach(_, _)
Reach(S, n) ==
  IF n = 0 THEN S
  ELSE Reach(S \cup UNION {dependencies[u] : u \in S}, n - 1)
Ancestors(t) == Reach(dependencies[t], Cardinality(Tasks))
HasCycle == \E t \in Tasks : t \in Ancestors(t)

NumRunning == Cardinality({t \in Tasks : status[t] = RUNNING})
AllEnded == \A t \in Tasks : cpc[t] \in {"done", "raised"}
\* execute_workflow returned or raised and no coroutine of it is left
ExecutionOver == pc \in {"returned", "raised"} /\ (AllEnded \/ order = <<>>)

\* C1: a task is set to Running, and its executor invoked, only when its own
\* status is Pending and every task it depends on is Completed.
C1_RunningOnlyWhenRunnable ==
  [][\A t \in Tasks :
       /\ (status'[t] = RUNNING /\ status[t] # RUNNING)
            => (status[t] = PENDING
                /\ \A d \in dependencies[t] : status[d] = COMPLETED)
       /\ (calls'[t] > calls[t])
            => (status[t] = RUNNING
                /\ \A d \in dependencies[t] : status[d] = COMPLETED)]_vars

\* A task with no unmet dependency was started and its executor invoked, while
\* a task whose dependency is not Completed got its turn and was not started.
C1_Witness ==
  \E t, u \in Tasks :
    /\ status[t] = RUNNING /\ calls[t] = 1
    /\ dependencies[u] # {} /\ cpc[u] = "done" /\ status[u] = PENDING

\* C2: the number of Running tasks never exceeds max_concurrency, every
\* Running task holding a slot of the semaphore.
C2_RunningWithinConcurrency ==
  /\ NumRunning <= max_concurrency
  /\ pc \notin {"idle", "started", "except", "service_except"} /\ order # <<>>
       => /\ sem_value >= 0
          /\ NumRunning <= max_concurrency - sem_value

\* max_concurrency tasks are Running and another one waits for a slot
C2_Witness ==
  /\ NumRunning = max_concurrency
  /\ \E t \in Tasks : cpc[t] = "waiting"

\* C3 (as claimed): for an acyclic workflow the list holds every task once and
\* every task after all the tasks it depends on.
C3_OrderAfterDependencies ==
  (pc = "gather" /\ ~HasCycle) =>
     /\ Len(order) = Cardinality(Tasks) /\ Range(order) = Tasks
     /\ \A i, j \in 1..Len(order) :
          order[j] \in dependencies[order[i]] => j < i

\* C4: with a cycle in the dependencies execute_workflow raises the
\* circular-dependency error and dispatches nothing: no executor is invoked,
\* every task stays Pending, the workflow ends Failed with that error.
C4_CycleFailsFast ==
  HasCycle =>
     /\ \A t \in Tasks : status[t] = PENDING /\ calls[t] = 0 /\ cpc[t] = "none"
     /\ pc \in {"idle", "started", "except", "service_except", "raised"}
     /\ pc \in {"service_except", "raised"}
          => wf_status = FAILED /\ wf_error = str(CircularDependency)
     /\ pc = "raised" => raised = CircularDependency

C4_Witness == HasCycle /\ pc = "raised" /\ wf_status = FAILED

\* C5 (as claimed): the workflow is Completed only when every task is
\* Completed, and tasks are left non-terminal at the end only if a task Failed.
C5_CompletedOnlyWhenAllCompleted ==
  /\ wf_status = COMPLETED => \A t \in Tasks : status[t] = COMPLETED
  /\ (ExecutionOver /\ \E t \in Tasks : status[t] \in {PENDING, RUNNING})
       => \E f \in Tasks : status[f] = FAILED

C7_ExecutorErrorFailsWorkflow ==
  /\ [](\A t \in Tasks :
          /\ cpc[t] \in {"resumed_err", "raised"} => wf_status # COMPLETED
          /\ cpc[t] = "raised"
               => (status[t] = FAILED /\ error[t] = str(ExecutorError(t))))
  /\ (\E t \in Tasks : cpc[t] = "resumed_err")
       ~> /\ \A t \in Tasks : cpc[t] # "resumed_err"
          /\ pc = "raised" /\ wf_status = FAILED
          /\ \E f \in Tasks :
               status[f] = FAILED /\ raised = ExecutorError(f)
                 /\ wf_error = str(ExecutorError(f))

\* two executors raised; the workflow is Failed with the error of one of them
C7_Witness ==
  /\ pc = "raised" /\ wf_status = FAILED
  /\ \E t, u \in Tasks :
       /\ t # u /\ cpc[t] = "raised" /\ cpc[u] = "raised"
       /\ raised = ExecutorError(t)

\* C8: when every task is Completed, execute_workflow sets the workflow
\* Completed and returns the result stored on the postprocess task.
C8_AllCompletedReturnsPostprocessResult ==
  (Tasks # {} /\ \A t \in Tasks : status[t] = COMPLETED) =>
     /\ pc \in {"gather", "returned"}
     /\ pc = "gather" => \E i \in 1..Len(ready) : ready[i] = Main
     /\ pc = "returned" =>
          /\ wf_status = COMPLETED
          /\ \E p \in Tasks :
               task_type(p) = "postprocess" /\ returned = result[p]
                 /\ returned = ExecutorResult(p)

C8_Witness ==
  /\ pc = "returned"
  /\ \A t \in Tasks : status[t] = COMPLETED
  /\ returned.kind = "postprocess"

C10_TaskStatusTransitions ==
  [][\A t \in Tasks :
       /\ status'[t] # status[t] =>
            \/ status[t] = PENDING /\ status'[t] = RUNNING
            \/ status[t] = RUNNING /\ status'[t] \in {COMPLETED, FAILED}
       /\ calls'[t] <= 1]_vars

\* one task went to Completed, another to Failed, a third was never started
C10_Witness ==
  \E t, u, v \in Tasks :
    /\ status[t] = COMPLETED /\ calls[t] = 1
    /\ status[u] = FAILED /\ calls[u] = 1
    /\ status[v] = PENDING /\ cpc[v] = "done"

\* C11: provided every executor call returns or raises in the end,
\* execute_workflow returns or raises, whatever the dependencies (cyclic or
\* not) and whichever tasks fail, and from then on the workflow is Completed
\* or Failed, never Running.
C11_ExecutionEnds ==
  /\ <>(pc \in {"returned", "raised"})
  /\ [](pc \in {"returned", "raised"} /\ wf_status # NOT_FOUND
          => wf_status \in {COMPLETED, FAILED})

\* execute_workflow returned although a task never became runnable
C11_Witness ==
  /\ pc = "returned" /\ AllEnded /\ wf_status = COMPLETED
  /\ \E t \in Tasks : dependencies[t] # {} /\ status[t] = PENDING

\* C12 (as claimed): the workflow of the service, executed with
\* max_concurrency 4 and executors that all succeed, ends Completed with its
\* eight tasks Completed, and get_workflow_status then reports
\* task_counts.completed = 8 and progress = 100.
C12_ServiceWorkflowCompletesAllTasks ==
  (IsServiceWorkflow /\ max_concurrency = DefaultMaxConcurrency
     /\ pc = "returned" /\ AllEnded) =>
     /\ wf_status = COMPLETED
     /\ \A t \in Tasks : status[t] = COMPLETED
     /\ get_workflow_status.status = COMPLETED
     /\ get_workflow_status.task_counts.completed = Len(TaskType)
     /\ get_workflow_status.progress = <<100, 1>>

\* the executor of extract_fields raises when it is invoked and no other does
OnlyExtractFieldsRaises ==
  /\ \A t \in Tasks :
       cpc[t] \in {"resumed_err", "raised"} => t = TaskOfKind("extract_fields")
  /\ cpc[TaskOfKind("extract_fields")] # "resumed_ok"
  /\ status[TaskOfKind("extract_fields")] # COMPLETED

\* C13 (as claimed): in the workflow of the service, when the executor of
\* extract_fields raises and the others succeed, the execution ends with
\* extract_fields Failed, validate_results and postprocess still Pending and
\* never invoked, and the workflow Failed.
C13_ExtractFieldsFailureStopsDownstream ==
  (IsServiceWorkflow /\ OnlyExtractFieldsRaises /\ ExecutionOver) =>
     /\ status[TaskOfKind("extract_fields")] = FAILED
     /\ \A k \in {"validate_results", "postprocess"} :
          status[TaskOfKind(k)] = PENDING /\ calls[TaskOfKind(k)] = 0
     /\ wf_status = FAILED

\* C14 (as claimed): once execute_workflow ended by the caller's cancellation
\* the workflow is Failed with a cancellation error, not left Running, and the
\* tasks that were Running were let finish; no task is started after the
\* cancellation.
C14_CancelledWorkflowFails ==
  /\ (pc = "raised" /\ raised = CancelledError) =>
        /\ wf_status = FAILED /\ wf_error # str(NoError)
        /\ \A t \in Tasks : status[t] # RUNNING
  /\ pc \in {"cancelled", "raised"} /\ gather_exc = CancelledError =>
        \A t \in Tasks : cpc[t] \notin {"acquired", "calling"}

\* the failed task that was dispatched first: the first one in `order`
FirstDispatchedFailure ==
  order[CHOOSE i \in 1..Len(order) :
          /\ status[order[i]] = FAILED
          /\ \A j \in 1..Len(order) : status[order[j]] = FAILED => i <= j]

\* C15 (as claimed): when the execution is over and tasks have failed, the
\* error recorded on the Failed workflow is the error of the failed task that
\* was dispatched first, whenever the failures happened.
C15_ErrorOfFirstDispatchedFailure ==
  (ExecutionOver /\ wf_status = FAILED
     /\ \E t \in Tasks : status[t] = FAILED) =>
     /\ wf_error = error[FirstDispatchedFailure]
     /\ raised = ExecutorError(FirstDispatchedFailure)

\* the message can only come from a task of the given kind
IdentifiesKind(message, kind) ==
  \A k \in Range(TaskType) : ExecutorMessage(k) = message => k = kind

\* C16 (as claimed): a Failed workflow carries a non-empty error, and when an
\* executor's exception failed it, the error tells the kind of the task that
\* failed.
C16_FailedWorkflowErrorNamesTaskKind ==
  wf_status = FAILED =>
     /\ wf_error # str(NoError)
     /\ gather_exc.kind = "executor" =>
          IdentifiesKind(wf_error, task_type(gather_exc.task))

\* C17: execute_workflow on an id without workflow raises the not-found
\* error and changes nothing: no status, error or result of a workflow or
\* task is written and no executor is invoked.
C17_NotFoundChangesNothing ==
  [][wf_status = NOT_FOUND =>
       /\ UNCHANGED <<wf_status, wf_error, status, result, error, calls, order,
                      cpc, ready>>
       /\ pc' # pc => (pc' = "raised" /\ raised' = WorkflowNotFound)]_vars

C17_Witness ==
  wf_status = NOT_FOUND /\ pc = "raised" /\ raised = WorkflowNotFound

C19_StatusCountsAndProgress ==
  [][(status_reply' # status_reply /\ wf_status # NOT_FOUND) =>
       LET counts == status_reply'.task_counts
           progress == status_reply'.progress
       IN /\ counts.total = Cardinality(Tasks)
          /\ \A s \in TaskStatus :
               counts[s] = Cardinality({t \in Tasks : status[t] = s})
          /\ counts.pending + counts.running + counts.completed + counts.failed
               = counts.total
          /\ IF counts.total = 0 THEN progress = <<0, 1>>
             ELSE progress[1] * counts.total = counts.completed * 100 * progress[2]
          /\ status_reply'.status = wf_status
          /\ status_reply'.error = wf_error]_vars

\* a reply with one task of three completed, one failed and one pending
C19_Witness ==
  /\ status_reply # NoReply /\ status_reply.status = FAILED
  /\ status_reply.task_counts =
       [total |-> 3, pending |-> 1, running |-> 0, completed |-> 1, failed |-> 1]
  /\ status_reply.progress = <<100, 3>>

\* the six upstream stages are Completed and each has its result
UpstreamResultsAvailable ==
  \A t \in Tasks :
    t < TaskOfKind("validate_results")
      => (status[t] = COMPLETED /\ result[t] # NoResult)

\* C20 (as claimed): with the results of the upstream stages available the
\* validate_results task ends Completed, never Failed, whatever the
\* validation says: without an answer of the LLM validator the basic
\* validation gives valid = false with an error for a missing required field
\* or table and only a warning for a malformed value.
C20_ValidateResultsAlwaysCompletes ==
  (UpstreamResultsAvailable
     /\ validation.outcome \notin {"none", "not_called"}) =>
     /\ status[TaskOfKind("validate_results")] = COMPLETED
     /\ validation.outcome = "returned"
     /\ validation.in.llm \in {"nothing", "raises"} =>
          /\ validation.out.validation.valid =
               ~(validation.in.required_field_missing
                   \/ validation.in.required_table_missing)
          /\ validation.out.validation.valid = FALSE
               => validation.out.validation.errors # {}
          /\ validation.in.malformed_value
               => validation.out.validation.warnings # {}

\* C21: a task has a result only if it is Completed and an error only if it
\* is Failed. When the executor of a task returns r, the task becomes
\* Completed with result r and completed_at set; when it raises e, the task
\* becomes Failed with error str(e) and no result, and its coroutine ends
\* with e.
C21_ResultIffCompletedErrorIffFailed ==
  /\ [](\A t \in Tasks :
         /\ result[t] # NoResult => status[t] = COMPLETED
         /\ error[t] # str(NoError) => status[t] = FAILED)
  /\ [][\A t \in Tasks :
         /\ (cpc[t] = "resumed_ok" /\ cpc'[t] # "resumed_ok")
              => /\ status'[t] = COMPLETED
                 /\ result'[t] = ExecutorResult(t)
                 /\ completed_at'[t]
                 /\ error'[t] = error[t]
                 /\ cpc'[t] = "done"
         /\ (cpc[t] = "resumed_err" /\ cpc'[t] # "resumed_err")
              => /\ status'[t] = FAILED
                 /\ error'[t] = str(ExecutorError(t))
                 /\ result'[t] = NoResult
                 /\ cpc'[t] = "raised"
                 /\ (~outer_done => gather_exc' = ExecutorError(t))]_vars

\* one executor returned and another raised
C21_Witness ==
  \E t, u \in Tasks :
    /\ status[t] = COMPLETED /\ result[t] = ExecutorResult(t) /\ completed_at[t]
    /\ calls[t] = 1 /\ cpc[t] = "done"
    /\ status[u] = FAILED /\ error[u] = str(ExecutorError(u))
    /\ result[u] = NoResult /\ calls[u] = 1 /\ cpc[u] = "raised"

\* C22 (as claimed): an attempt to start a task that is not runnable raises an
\* error at once: when _execute_task gets a task that cannot execute, its
\* coroutine ends with an exception instead of returning silently.
C22_StartOfUnrunnableTaskRaises ==
  [][\A t \in Tasks :
       (cpc[t] = "acquired" /\ ~can_execute(t) /\ cpc'[t] # "acquired")
         => cpc'[t] = "raised"]_vars

\* the stages in the order of the pipeline, extract_fields and extract_tables
\* side by side: the kinds each stage follows
Follows(kind) ==
  CASE kind = "preprocess" -> {}
    [] kind = "extract_text" -> {"preprocess"}
    [] kind = "analyze_layout" -> {"extract_text"}
    [] kind = "understand_document" -> {"analyze_layout"}
    [] kind \in {"extract_fields", "extract_tables"} -> {"understand_document"}
    [] kind = "validate_results" -> {"extract_fields", "extract_tables"}
    [] kind = "postprocess" -> {"validate_results"}

\* C23: the workflow create_workflow builds has exactly 8 tasks, one of each
\* kind, all Pending and all of the new workflow, and exactly the 8 edges of
\* the pipeline; every edge joins two of these tasks and the graph has no
\* cycle. No step of an execution adds, removes or rewires tasks or edges.
C23_ServiceBuildsEightStageWorkflow ==
  /\ [](create.pc = "returned" =>
         /\ Len(create.tasks) = 8
         /\ Tasks = DOMAIN create.tasks
         /\ \A k \in Range(TaskType) :
              Cardinality({i \in DOMAIN create.tasks :
                             create.tasks[i].task_type = k}) = 1
         /\ \A i \in DOMAIN create.tasks :
              /\ create.tasks[i].workflow_id = WorkflowId
              /\ create.tasks[i].task_type = task_type(i)
         /\ Cardinality(create.edges) = 8
         /\ \A e \in create.edges :
              \E i, j \in DOMAIN create.tasks :
                /\ create.tasks[i].id = e[1] /\ create.tasks[j].id = e[2]
                /\ create.tasks[i].workflow_id = create.tasks[j].workflow_id
         /\ \A t, d \in Tasks :
              d \in dependencies[t] <=> task_type(d) \in Follows(task_type(t))
         /\ NumDependencies(dependencies) = 8
         /\ ~HasCycle)
  /\ [][/\ (create.pc = "idle" /\ create'.pc = "returned")
            => \A t \in DOMAIN status' : status'[t] = PENDING
        /\ (create' = create) => dependencies' = dependencies]_vars

\* the workflow the service created was executed to its end
C23_Witness ==
  /\ create.pc = "returned"
  /\ dependencies = ServiceDependencies
  /\ pc = "returned" /\ wf_status = COMPLETED
  /\ \E t \in Tasks : status[t] = COMPLETED

C25_GetDependencyTaskIsDirect ==
  /\ \A t \in Tasks :
       \A kind \in Range(TaskType) :
         /\ get_dependency_task(t, kind) # 0
              => /\ get_dependency_task(t, kind) \in dependencies[t]
                 /\ task_type(get_dependency_task(t, kind)) = kind
         /\ get_dependency_task(t, kind) = 0
              <=> ~(\E d \in dependencies[t] : task_type(d) = kind)
  /\ validation.outcome \in {"returned", "raised"}
       => \A kind \in UpstreamKinds :
            get_dependency_task(TaskOfKind("validate_results"), kind) # 0
              => status[get_dependency_task(TaskOfKind("validate_results"),
                                            kind)] = COMPLETED

\* the executor ran with extract_fields a direct dependency, which it found
\* Completed, and with the failed extract_tables no direct dependency, for
\* which it got None
C25_Witness ==
  /\ validation.outcome = "raised"
  /\ validation.out.message = "Table extraction task result not found"
  /\ TaskOfKind("extract_fields") \in dependencies[TaskOfKind("validate_results")]
  /\ TaskOfKind("extract_tables") \notin dependencies[TaskOfKind("validate_results")]
  /\ status[TaskOfKind("extract_tables")] = FAILED

\* C26 (as claimed): in the workflow the service built, every kind the
\* executor of a stage looks up is the kind of one of the direct dependencies
\* of the stage, so that no lookup gives None and no stage fails with
\* "... task result not found" once its upstream stages are Completed.
C26_LookupsAreDirectDependencies ==
  create.pc = "returned" =>
    \A t \in Tasks :
      \A kind \in executor_lookups(task_type(t)) :
        get_dependency_task(t, kind) # 0

\* C27 (as claimed): once execute_workflow has returned or raised, no task is
\* Running and no coroutine of a task is left that could still start an
\* executor, wait for one or write a status.
C27_NothingLeftAfterExecuteWorkflow ==
  pc \in {"returned", "raised"} =>
    \A t \in Tasks :
      /\ status[t] # RUNNING
      /\ cpc[t] \in {"none", "done", "raised"}

\* C28: every status change is committed before the step that depends on it
\* proceeds: no step leaves a change uncommitted, the workflow's Running is
\* committed before a task coroutine exists, a task's Running before its
\* executor is invoked, and its Completed or Failed before its coroutine ends
\* and gives its slot back. Hence the committed rows never show a task
\* Running or over under a Pending workflow, and no status query reports it.
C28_StatusCommittedBeforeNextStep ==
  /\ [](/\ committed = Rows(wf_status, wf_error, dependencies, status, result,
                            error, document)
        /\ \A t \in Tasks :
             /\ cpc[t] # "none" => committed.wf_status # PENDING
             /\ calls[t] > 0 => committed.status[t] # PENDING
             /\ committed.status[t] # PENDING => committed.wf_status # PENDING
        /\ (status_reply # NoReply /\ status_reply.status = PENDING)
             => status_reply.task_counts.pending = status_reply.task_counts.total)
  /\ [][\A t \in Tasks :
         /\ calls'[t] > calls[t] => committed.status[t] = RUNNING
         /\ (cpc[t] \in {"resumed_ok", "resumed_err"}
               /\ cpc'[t] \in {"done", "raised"})
              => /\ committed'.status[t] \in {COMPLETED, FAILED}
                 /\ committed'.status[t] = status'[t]]_vars

\* a status query saw a running task in a running workflow, and a task ended
C28_Witness ==
  /\ status_reply # NoReply
  /\ status_reply.status = RUNNING
  /\ status_reply.task_counts.running = 1
  /\ \E t \in Tasks : committed.status[t] = COMPLETED /\ cpc[t] = "done"
  /\ \E t \in Tasks : committed.status[t] = RUNNING /\ calls[t] = 1

\* C29 (as claimed): create_workflow is all-or-nothing. When it returned, the
\* workflow is stored with its 8 tasks and 8 edges and the document is
\* 'processing' with the workflow as its job; when it raised, no workflow row
\* is left and the document is as it was.
C29_CreateWorkflowAllOrNothing ==
  /\ create.pc = "returned" =>
       /\ committed.wf_status # NOT_FOUND
       /\ Len(committed.dependencies) = 8
       /\ NumDependencies(committed.dependencies) = 8
       /\ committed.document.status = "processing"
       /\ committed.document.job_id = WorkflowId
  /\ create.pc = "raised" =>
       /\ committed.wf_status = NOT_FOUND
       /\ committed.dependencies = <<>>
       /\ committed.document \in {NoDocument, UploadedDocument}

\* C30 (as claimed): a document whose workflow execution has ended does not
\* stay 'processing': after a workflow the service created ended Completed
\* the document is 'completed' with the results stored, and after it ended
\* Failed the document's status is no longer 'processing'.
C30_DocumentLeavesProcessing ==
  (create.pc = "returned" /\ pc \in {"returned", "raised"}) =>
    /\ wf_status = COMPLETED
         => (document.status = "completed" /\ document.extraction_results)
    /\ wf_status = FAILED => document.status # "processing"

====
